---- MODULE Spec2Model ----
(***************************************************************************)
(* Model of git-host (src/git-host/main.c) and of the key resolver          *)
(* ssh-host-authorized-keys (src/ssh-host-authorized-keys/main.c).          *)
(*                                                                         *)
(* C strings are sequences of one-character strings.  A C buffer is a      *)
(* sequence that holds its terminating NUL; indices into buffers are the   *)
(* 0-based indices of the source, so path[i] of the source is At(path, i). *)
(***************************************************************************)
EXTENDS Integers, Sequences, FiniteSets, TLC

(* ------------------------------------------------------------------ *)
(* Bounds of the model                                                 *)
(* ------------------------------------------------------------------ *)
MaxPathLen == 7
MaxArgLen == 4
MaxCmdLen == 5

(* ------------------------------------------------------------------ *)
(* C strings                                                           *)
(* ------------------------------------------------------------------ *)
NUL == "NUL"
(* a null char pointer: no C string is this sequence *)
NULL == <<"NULL">>

At(buf, i) == buf[i + 1]

Put(buf, i, c) == [buf EXCEPT ![i + 1] = c]

RECURSIVE strlen(_)
strlen(buf) == IF buf = <<>> \/ Head(buf) = NUL THEN 0 ELSE 1 + strlen(Tail(buf))

CStr(buf) == SubSeq(buf, 1, strlen(buf))

Buf(s) == Append(s, NUL)

RECURSIVE SeqsUpTo(_, _)
SeqsUpTo(S, n) ==
    IF n = 0 THEN {<<>>}
    ELSE LET shorter == SeqsUpTo(S, n - 1)
         IN  shorter \cup {Append(s, c) : s \in {t \in shorter : Len(t) = n - 1}, c \in S}

RECURSIVE IndexOf(_, _, _)
IndexOf(s, c, from) ==
    IF from > Len(s) THEN 0
    ELSE IF s[from] = c THEN from
    ELSE IndexOf(s, c, from + 1)

(* unsigned int arithmetic of the indices dst and src: a subtraction below *)
(* zero wraps to an index beyond every buffer, which UINT_WRAPPED stands for *)
UINT_WRAPPED == 2147483647

USub(a, b) == IF a >= b /\ a # UINT_WRAPPED THEN a - b ELSE UINT_WRAPPED

UAdd(a, b) == IF a = UINT_WRAPPED THEN UINT_WRAPPED ELSE a + b

(* ------------------------------------------------------------------ *)
(* git_host_normalize_path                                             *)
(* ------------------------------------------------------------------ *)
NormalizeStart(raw) ==
    [path |-> Buf(raw), dst |-> 0, src |-> 0, state |-> "TRAILING_SLASH"]

(* while (dst != 0 && path[dst - off] != '/') dst--;                    *)
(* off is 1 in the loop body and 0 after the loop                       *)
RECURSIVE NormalizeRewind(_, _, _)
NormalizeRewind(path, dst, off) ==
    IF dst # 0 /\ At(path, USub(dst, off)) # "/"
    THEN NormalizeRewind(path, USub(dst, 1), off)
    ELSE dst

(* dst -= 2 without the loop that walks back to the separator *)
NormalizePopTwoBytes(path, dst, off) ==
    IF dst # 0 THEN USub(dst, 2) ELSE dst

NormalizePop(path, dst, off) ==
    IF dst # 0 THEN NormalizeRewind(path, USub(dst, 2), off) ELSE dst

(* one iteration of the while loop, src++ included *)
NormalizeStep(n) ==
    LET c == At(n.path, n.src)
        next == [n EXCEPT !.src = UAdd(n.src, 1)]
    IN  CASE n.state = "TRAILING_SLASH" ->
               IF c = "/" THEN next
               ELSE IF c = "." THEN [next EXCEPT !.state = "NAME_DOT"]
               ELSE [next EXCEPT !.path = Put(n.path, n.dst, c),
                                 !.dst = UAdd(n.dst, 1),
                                 !.state = "NAME"]
          [] n.state = "NAME_DOT_DOT" ->
               IF c = "/"
               THEN [next EXCEPT !.dst = NormalizePop(n.path, n.dst, 1),
                                 !.state = "TRAILING_SLASH"]
               ELSE [next EXCEPT !.path = Put(Put(Put(n.path, n.dst, "."),
                                                  UAdd(n.dst, 1), "."),
                                              UAdd(n.dst, 2), c),
                                 !.dst = UAdd(n.dst, 3),
                                 !.state = "NAME"]
          [] n.state = "NAME_DOT" ->
               IF c = "/" THEN [next EXCEPT !.state = "TRAILING_SLASH"]
               ELSE IF c = "." THEN [next EXCEPT !.state = "NAME_DOT_DOT"]
               ELSE [next EXCEPT !.path = Put(Put(n.path, n.dst, "."),
                                              UAdd(n.dst, 1), c),
                                 !.dst = UAdd(n.dst, 2),
                                 !.state = "NAME"]
          [] n.state = "NAME" ->
               [next EXCEPT !.path = Put(n.path, n.dst, c),
                            !.dst = UAdd(n.dst, 1),
                            !.state = IF c = "/" THEN "TRAILING_SLASH" ELSE "NAME"]

(* NormalizeFinish leaving the trailing separator in place *)
NormalizeFinishKeepSlash(n) ==
    LET dst == CASE n.state \in {"TRAILING_SLASH", "NAME_DOT"} -> n.dst
                 [] n.state = "NAME_DOT_DOT" -> NormalizePop(n.path, n.dst, 0)
                 [] n.state = "NAME" -> n.dst
        path == Put(n.path, dst, NUL)
    IN  [ret |-> IF At(path, 0) = NUL THEN -1 ELSE 0,
         path |-> CStr(path),
         dst |-> dst]

(* NormalizeFinish rewinding a final '..' as the loop body does, up to path[dst - 1] *)
NormalizeFinishRewindAsLoop(n) ==
    LET dst == CASE n.state \in {"TRAILING_SLASH", "NAME_DOT"} ->
                      IF n.dst # 0 THEN USub(n.dst, 1) ELSE n.dst
                 [] n.state = "NAME_DOT_DOT" -> NormalizePop(n.path, n.dst, 1)
                 [] n.state = "NAME" -> n.dst
        path == Put(n.path, dst, NUL)
    IN  [ret |-> IF At(path, 0) = NUL THEN -1 ELSE 0,
         path |-> CStr(path),
         dst |-> dst]

(* the switch after the loop, path[dst] = '\0' and the return value *)
NormalizeFinish(n) ==
    LET dst == CASE n.state \in {"TRAILING_SLASH", "NAME_DOT"} ->
                      IF n.dst # 0 THEN USub(n.dst, 1) ELSE n.dst
                 [] n.state = "NAME_DOT_DOT" -> NormalizePop(n.path, n.dst, 0)
                 [] n.state = "NAME" -> n.dst
        path == Put(n.path, dst, NUL)
    IN  [ret |-> IF At(path, 0) = NUL THEN -1 ELSE 0,
         path |-> CStr(path),
         dst |-> dst]

RECURSIVE NormalizeRun(_)
NormalizeRun(n) ==
    IF At(n.path, n.src) # NUL THEN NormalizeRun(NormalizeStep(n)) ELSE n

git_host_normalize_path(raw) == NormalizeFinish(NormalizeRun(NormalizeStart(raw)))

(* strncmp(a, b, n) on C strings: 0 when equal over the first n bytes *)
RECURSIVE strncmp(_, _, _)
strncmp(a, b, n) ==
    IF n = 0 THEN 0
    ELSE LET ca == IF a = <<>> THEN NUL ELSE Head(a)
             cb == IF b = <<>> THEN NUL ELSE Head(b)
         IN  IF ca # cb THEN 1
             ELSE IF ca = NUL THEN 0
             ELSE strncmp(Tail(a), Tail(b), n - 1)

strcmp(a, b) == IF CStr(a) = CStr(b) THEN 0 ELSE 1

(* ------------------------------------------------------------------ *)
(* git_host_expand_command                                             *)
(* ------------------------------------------------------------------ *)
EXIT_SUCCESS == 0
EXIT_FAILURE == 1

(* exit status of err(-1, ...): the low eight bits of -1 *)
EXIT_ERR_MINUS_1 == 255

UNINIT == -1

ExpandStart(cmd) ==
    [copy |-> Buf(cmd), it |-> 0, dst |-> UNINIT, src |-> UNINIT, arg |-> UNINIT,
     state |-> "SPACES", argv |-> <<>>]

(* xstrdup(arg) once *dst = '\0' is written *)
ExpandPush(e) ==
    LET copy == Put(e.copy, e.dst, NUL)
    IN  [e EXCEPT !.copy = copy,
                  !.argv = Append(e.argv, CStr(SubSeq(copy, e.arg + 1, Len(copy))))]

(* the copy that leaves src where it is *)
ExpandCopyKeepSrc(e) ==
    [e EXCEPT !.copy = Put(e.copy, e.dst, At(e.copy, e.src)),
              !.dst = e.dst + 1]

(* *dst++ = *src++ *)
ExpandCopy(e) ==
    [e EXCEPT !.copy = Put(e.copy, e.dst, At(e.copy, e.src)),
              !.dst = e.dst + 1,
              !.src = e.src + 1]

(* one iteration of the while loop, it++ included *)
ExpandStep(e) ==
    LET c == At(e.copy, e.it)
        r == CASE e.state = "SPACES" ->
                    CASE c = NUL  -> [e EXCEPT !.state = "END"]
                      [] c = " "  -> e
                      [] c = "\"" -> [e EXCEPT !.state = "QUOTE_DOUBLE",
                                               !.dst = e.it, !.arg = e.it, !.src = e.it + 1]
                      [] c = "'"  -> [e EXCEPT !.state = "QUOTE_SINGLE",
                                               !.dst = e.it, !.arg = e.it, !.src = e.it + 1]
                      [] OTHER    -> [e EXCEPT !.state = "LITERAL",
                                               !.dst = e.it + 1, !.arg = e.it, !.src = e.it + 1]
               [] e.state = "LITERAL" ->
                    CASE c = NUL  -> [ExpandPush(e) EXCEPT !.state = "END"]
                      [] c = "\"" -> [e EXCEPT !.state = "QUOTE_DOUBLE", !.src = e.src + 1]
                      [] c = "'"  -> [e EXCEPT !.state = "QUOTE_SINGLE", !.src = e.src + 1]
                      [] c = " "  -> [ExpandPush(e) EXCEPT !.state = "SPACES"]
                      [] OTHER    -> ExpandCopy(e)
               [] e.state = "QUOTE_SINGLE" ->
                    CASE c = NUL  -> [e EXCEPT !.state = "ERROR_UNCLOSED_QUOTE"]
                      [] c = "'"  -> [e EXCEPT !.state = "LITERAL", !.src = e.src + 1]
                      [] OTHER    -> ExpandCopy(e)
               [] e.state = "QUOTE_DOUBLE" ->
                    CASE c = NUL  -> [e EXCEPT !.state = "ERROR_UNCLOSED_QUOTE"]
                      [] c = "\"" -> [e EXCEPT !.state = "LITERAL", !.src = e.src + 1]
                      [] c = "\\" -> [e EXCEPT !.state = "QUOTE_DOUBLE_ESCAPE", !.src = e.src + 1]
                      [] OTHER    -> ExpandCopy(e)
               [] e.state = "QUOTE_DOUBLE_ESCAPE" ->
                    CASE c = NUL  -> [e EXCEPT !.state = "ERROR_UNCLOSED_QUOTE"]
                      [] OTHER    -> [ExpandCopy(e) EXCEPT !.state = "QUOTE_DOUBLE"]
    IN  [r EXCEPT !.it = e.it + 1]

ExpandRunning(e) == e.state \notin {"END", "ERROR_UNCLOSED_QUOTE"}

(* the two errx() after the loop, else the argument vector *)
ExpandFinish(e) ==
    IF e.state = "ERROR_UNCLOSED_QUOTE"
    THEN [status |-> EXIT_FAILURE, diag |-> "Unclosed quote", argc |-> 0, argv |-> <<>>]
    ELSE IF Len(e.argv) = 0
    THEN [status |-> EXIT_FAILURE, diag |-> "empty command", argc |-> 0, argv |-> <<>>]
    ELSE [status |-> -1, diag |-> "", argc |-> Len(e.argv), argv |-> e.argv]

RECURSIVE ExpandRun(_)
ExpandRun(e) == IF ExpandRunning(e) THEN ExpandRun(ExpandStep(e)) ELSE e

git_host_expand_command(cmd) == ExpandFinish(ExpandRun(ExpandStart(cmd)))

(* ------------------------------------------------------------------ *)
(* Repository paths                                                    *)
(* ------------------------------------------------------------------ *)
CONFIG_GIT_HOST_REPOSITORIES == <<"/", "r">>
CONFIG_GIT_EXEC_PATH == <<"/", "g">>

GIT_HOST_MODE_RO == 1
GIT_HOST_MODE_WR == 2

git_host_pathcat(dir, sub) == dir \o <<"/">> \o sub

git_host_execpath(env, file) ==
    git_host_pathcat(IF env = NULL THEN CONFIG_GIT_EXEC_PATH ELSE env, file)

(* git_host_check_repository_path without the s[1] == '.' test *)
check_repository_path_hidden_name(path, m, auth) ==
    LET s == IndexOf(path, "/", 1)
    IN  IF s = 0 \/ IndexOf(path, "/", s + 1) # 0
        THEN [ret |-> -1, errx |-> FALSE]
        ELSE IF (m \div GIT_HOST_MODE_WR) % 2 = 1
        THEN IF auth = NULL THEN [ret |-> 0, errx |-> TRUE]
             ELSE IF Len(auth) # s - 1
                     \/ strncmp(Buf(path), Buf(auth), Len(auth)) # 0
             THEN [ret |-> -1, errx |-> FALSE]
             ELSE [ret |-> 0, errx |-> FALSE]
        ELSE [ret |-> 0, errx |-> FALSE]

(* git_host_check_repository_path without the comparison of the lengths *)
check_repository_path_prefix_owner(path, m, auth) ==
    LET s == IndexOf(path, "/", 1)
    IN  IF s = 0 \/ At(Buf(path), s) = "." \/ IndexOf(path, "/", s + 1) # 0
        THEN [ret |-> -1, errx |-> FALSE]
        ELSE IF (m \div GIT_HOST_MODE_WR) % 2 = 1
        THEN IF auth = NULL THEN [ret |-> 0, errx |-> TRUE]
             ELSE IF strncmp(Buf(path), Buf(auth), Len(auth)) # 0
             THEN [ret |-> -1, errx |-> FALSE]
             ELSE [ret |-> 0, errx |-> FALSE]
        ELSE [ret |-> 0, errx |-> FALSE]

(* ret is the value returned; errx is TRUE when errx(EXIT_FAILURE, *)
(* "Missing authorization") ends the process instead of returning *)
git_host_check_repository_path(path, m, auth) ==
    LET s == IndexOf(path, "/", 1)
    IN  IF s = 0 \/ At(Buf(path), s) = "." \/ IndexOf(path, "/", s + 1) # 0
        THEN [ret |-> -1, errx |-> FALSE]
        ELSE IF (m \div GIT_HOST_MODE_WR) % 2 = 1
        THEN IF auth = NULL THEN [ret |-> 0, errx |-> TRUE]
             ELSE IF Len(auth) # s - 1
                     \/ strncmp(Buf(path), Buf(auth), Len(auth)) # 0
             THEN [ret |-> -1, errx |-> FALSE]
             ELSE [ret |-> 0, errx |-> FALSE]
        ELSE [ret |-> 0, errx |-> FALSE]

(* the path handed to the subprocess, or the exit of errx() *)
git_host_repository(raw, m, auth) ==
    LET n == git_host_normalize_path(raw)
        chk == IF n.ret # 0 THEN [ret |-> -1, errx |-> FALSE]
               ELSE git_host_check_repository_path(n.path, m, auth)
    IN  IF chk.errx
        THEN [status |-> EXIT_FAILURE, diag |-> "Missing authorization", path |-> <<>>]
        ELSE IF chk.ret # 0
        THEN [status |-> EXIT_FAILURE, diag |-> "Invalid repository path", path |-> <<>>]
        ELSE [status |-> -1, diag |-> "",
              path |-> git_host_pathcat(CONFIG_GIT_HOST_REPOSITORIES, n.path)]

(* ------------------------------------------------------------------ *)
(* String literals of git-host                                         *)
(* ------------------------------------------------------------------ *)
S_dir == <<"d", "i", "r">>
S_init == <<"i", "n", "i", "t">>
S_git_receive_pack == <<"g", "i", "t", "-", "r", "e", "c", "e", "i", "v", "e", "-", "p", "a", "c", "k">>
S_git_upload_archive == <<"g", "i", "t", "-", "u", "p", "l", "o", "a", "d", "-", "a", "r", "c", "h", "i", "v", "e">>
S_git_upload_pack == <<"g", "i", "t", "-", "u", "p", "l", "o", "a", "d", "-", "p", "a", "c", "k">>
S_git_init == <<"g", "i", "t", "-", "i", "n", "i", "t">>
S_quiet == <<"-", "-", "q", "u", "i", "e", "t">>
S_bare == <<"-", "-", "b", "a", "r", "e">>
S_dashdash == <<"-", "-">>
S_alice == <<"a", "l", "i", "c", "e">>
S_alice_repo == S_alice \o <<"/", "r", "e", "p", "o">>
S_bob_repo == <<"b", "o", "b", "/", "r", "e", "p", "o">>

(* the table of git_host_exec: name and handler *)
commands ==
    << [name |-> S_dir,                exec |-> "git_host_exec_dir"],
       [name |-> S_init,               exec |-> "git_host_exec_init"],
       [name |-> S_git_receive_pack,   exec |-> "git_host_exec_git_receive_pack"],
       [name |-> S_git_upload_archive, exec |-> "git_host_exec_git_upload_X"],
       [name |-> S_git_upload_pack,    exec |-> "git_host_exec_git_upload_X"] >>

commandscount == Len(commands)

(* the lookup of git_host_exec comparing only the bytes argv[0] has *)
RECURSIVE CommandLookupPrefix(_, _)
CommandLookupPrefix(name, i) ==
    IF i < commandscount /\ strncmp(Buf(name), Buf(commands[i + 1].name), Len(name)) # 0
    THEN CommandLookupPrefix(name, i + 1)
    ELSE i

(* the while loop of git_host_exec: the index of the first entry named argv[0] *)
RECURSIVE CommandLookup(_, _)
CommandLookup(name, i) ==
    IF i < commandscount /\ strcmp(Buf(name), Buf(commands[i + 1].name)) # 0
    THEN CommandLookup(name, i + 1)
    ELSE i

(* ------------------------------------------------------------------ *)
(* ssh-host-authorized-keys: the scan of one authorized_keys line      *)
(* ------------------------------------------------------------------ *)
sshd_authorized_keys_types ==
    << <<"s", "k", "-", "e", "c", "d", "s", "a", "-", "s", "h", "a", "2", "-", "n", "i", "s", "t", "p", "2", "5", "6", "@", "o", "p", "e", "n", "s", "s", "h", ".", "c", "o", "m">>,
       <<"e", "c", "d", "s", "a", "-", "s", "h", "a", "2", "-", "n", "i", "s", "t", "p", "2", "5", "6">>,
       <<"e", "c", "d", "s", "a", "-", "s", "h", "a", "2", "-", "n", "i", "s", "t", "p", "3", "8", "4">>,
       <<"e", "c", "d", "s", "a", "-", "s", "h", "a", "2", "-", "n", "i", "s", "t", "p", "5", "2", "1">>,
       <<"s", "k", "-", "s", "s", "h", "-", "e", "d", "2", "5", "5", "1", "9", "@", "o", "p", "e", "n", "s", "s", "h", ".", "c", "o", "m">>,
       <<"s", "s", "h", "-", "e", "d", "2", "5", "5", "1", "9">>,
       <<"s", "s", "h", "-", "d", "s", "s">>,
       <<"s", "s", "h", "-", "r", "s", "a">> >>

options ==
    << [name |-> <<"r", "e", "s", "t", "r", "i", "c", "t">>,
        type |-> "SIMPLE"],
       [name |-> <<"c", "e", "r", "t", "-", "a", "u", "t", "h", "o", "r", "i", "t", "y">>,
        type |-> "SIMPLE"],
       [name |-> <<"p", "o", "r", "t", "-", "f", "o", "r", "w", "a", "r", "d", "i", "n", "g">>,
        type |-> "ALLOW_NO"],
       [name |-> <<"a", "g", "e", "n", "t", "-", "f", "o", "r", "w", "a", "r", "d", "i", "n", "g">>,
        type |-> "ALLOW_NO"],
       [name |-> <<"x", "1", "1", "-", "f", "o", "r", "w", "a", "r", "d", "i", "n", "g">>,
        type |-> "ALLOW_NO"],
       [name |-> <<"t", "o", "u", "c", "h", "-", "r", "e", "q", "u", "i", "r", "e", "d">>,
        type |-> "ALLOW_NO"],
       [name |-> <<"v", "e", "r", "i", "f", "y", "-", "r", "e", "q", "u", "i", "r", "e", "d">>,
        type |-> "ALLOW_NO"],
       [name |-> <<"p", "t", "y">>,
        type |-> "ALLOW_NO"],
       [name |-> <<"u", "s", "e", "r", "-", "r", "c">>,
        type |-> "ALLOW_NO"],
       [name |-> <<"c", "o", "m", "m", "a", "n", "d">>,
        type |-> "WITH_ARGS"],
       [name |-> <<"p", "r", "i", "n", "c", "i", "p", "a", "l", "s">>,
        type |-> "WITH_ARGS"],
       [name |-> <<"f", "r", "o", "m">>,
        type |-> "WITH_ARGS"],
       [name |-> <<"e", "x", "p", "i", "r", "y", "-", "t", "i", "m", "e">>,
        type |-> "WITH_ARGS"],
       [name |-> <<"e", "n", "v", "i", "r", "o", "n", "m", "e", "n", "t">>,
        type |-> "WITH_ARGS"],
       [name |-> <<"p", "e", "r", "m", "i", "t", "o", "p", "e", "n">>,
        type |-> "WITH_ARGS"],
       [name |-> <<"p", "e", "r", "m", "i", "t", "l", "i", "s", "t", "e", "n">>,
        type |-> "WITH_ARGS"],
       [name |-> <<"t", "u", "n", "n", "e", "l">>,
        type |-> "WITH_ARGS"] >>

optionscount == Len(options)

UpperCase == <<"A", "B", "C", "D", "E", "F", "G", "H", "I", "J", "K", "L", "M",
               "N", "O", "P", "Q", "R", "S", "T", "U", "V", "W", "X", "Y", "Z">>

LowerCase == <<"a", "b", "c", "d", "e", "f", "g", "h", "i", "j", "k", "l", "m",
               "n", "o", "p", "q", "r", "s", "t", "u", "v", "w", "x", "y", "z">>

tolower(c) ==
    IF \E i \in 1..Len(UpperCase) : UpperCase[i] = c
    THEN LowerCase[CHOOSE i \in 1..Len(UpperCase) : UpperCase[i] = c]
    ELSE c

isblank(c) == c \in {" ", "\t"}

(* the C string that starts at index i of buf *)
From(buf, i) == SubSeq(buf, i + 1, Len(buf))

(* strncasecmp(a, b, n) on C strings: 0 when equal, case ignored, over n bytes *)
RECURSIVE strncasecmp(_, _, _)
strncasecmp(a, b, n) ==
    IF n = 0 THEN 0
    ELSE LET ca == IF a = <<>> THEN NUL ELSE tolower(Head(a))
             cb == IF b = <<>> THEN NUL ELSE tolower(Head(b))
         IN  IF ca # cb THEN 1
             ELSE IF ca = NUL THEN 0
             ELSE strncasecmp(Tail(a), Tail(b), n - 1)

(* the value ending at the first quote, escaped or not *)
SkipValueNoEscape(buf, entry, skipped) ==
    LET ends == {j \in skipped..(Len(buf) - 1 - entry) : At(buf, entry + j) \in {NUL, "\""}}
    IN  CHOOSE j \in ends : \A i \in ends : j <= i

(* the while loop over the value of a name="value" option: the index of the *)
(* closing quote or of the terminator *)
RECURSIVE SkipValue(_, _, _)
SkipValue(buf, entry, skipped) ==
    LET c == At(buf, entry + skipped)
    IN  IF c # NUL /\ c # "\""
        THEN SkipValue(buf, entry,
                       IF c = "\\" /\ At(buf, entry + skipped + 1) = "\""
                       THEN skipped + 2 ELSE skipped + 1)
        ELSE skipped

(* the switch of the for loop for options[i]: the bytes skipped, or ret = -1 *)
SkipOption(buf, entry, o) ==
    LET optionlen == Len(o.name)
    IN  CASE o.type = "ALLOW_NO" ->
               LET no == IF strncasecmp(From(buf, entry), Buf(<<"n", "o", "-">>), 3) = 0
                         THEN 3 ELSE 0
               IN  IF strncasecmp(From(buf, entry + no), Buf(o.name), optionlen) = 0
                   THEN [ret |-> 0, skipped |-> no + optionlen]
                   ELSE [ret |-> 0, skipped |-> 0]
          [] o.type = "SIMPLE" ->
               IF strncasecmp(From(buf, entry), Buf(o.name), optionlen) = 0
               THEN [ret |-> 0, skipped |-> optionlen]
               ELSE [ret |-> 0, skipped |-> 0]
          [] o.type = "WITH_ARGS" ->
               IF strncasecmp(From(buf, entry), Buf(o.name), optionlen) # 0
               THEN [ret |-> 0, skipped |-> 0]
               ELSE IF At(buf, entry + optionlen) # "="
               THEN [ret |-> -1, skipped |-> 0]
               ELSE IF At(buf, entry + optionlen + 1) # "\""
               THEN [ret |-> -1, skipped |-> 0]
               ELSE LET close == SkipValue(buf, entry, optionlen + 2)
                    IN  IF At(buf, entry + close) = NUL
                        THEN [ret |-> -1, skipped |-> 0]
                        ELSE [ret |-> 0, skipped |-> close + 1]

(* the for loop: the first option that skips bytes, or fails *)
RECURSIVE SkipFirstOption(_, _, _)
SkipFirstOption(buf, entry, i) ==
    IF i >= optionscount THEN [ret |-> 0, skipped |-> 0]
    ELSE LET r == SkipOption(buf, entry, options[i + 1])
         IN  IF r.ret # 0 \/ r.skipped # 0 THEN r
             ELSE SkipFirstOption(buf, entry, i + 1)

(* the while loop of ssh_host_authorized_keys_skip_options from entry on *)
RECURSIVE SkipOptionsFrom(_, _)
SkipOptionsFrom(buf, entry) ==
    IF At(buf, entry) = NUL \/ isblank(At(buf, entry))
    THEN [ret |-> 0, entry |-> entry]
    ELSE LET r == SkipFirstOption(buf, entry, 0)
             e == entry + r.skipped
         IN  IF r.ret # 0 THEN [ret |-> -1, entry |-> entry]
             ELSE IF At(buf, e) = NUL \/ isblank(At(buf, e)) THEN [ret |-> 0, entry |-> e]
             ELSE IF At(buf, e) # "," THEN [ret |-> -1, entry |-> e]
             ELSE IF At(buf, e + 1) = NUL THEN [ret |-> -1, entry |-> e + 1]
             ELSE SkipOptionsFrom(buf, e + 1)

(* ret, and *entryp as the caller finds it: written on success only *)
ssh_host_authorized_keys_skip_options(buf, entry) ==
    LET r == SkipOptionsFrom(buf, entry)
    IN  IF r.ret = 0 THEN r ELSE [ret |-> -1, entry |-> entry]

ssh_host_authorized_keys_entry_field_matches(field, buf, entry) ==
    IF strncmp(From(buf, entry), Buf(field), Len(field)) = 0
           /\ isblank(At(buf, entry + Len(field)))
    THEN [ret |-> 0, entry |-> entry + Len(field)]
    ELSE [ret |-> -1, entry |-> entry]

(* the while loop that steps entry over blanks *)
RECURSIVE SkipBlanks(_, _)
SkipBlanks(buf, entry) ==
    IF isblank(At(buf, entry)) THEN SkipBlanks(buf, entry + 1) ELSE entry

(* the body of the getline loop for one line: TRUE when the loop breaks with ret = 0 *)
EntryMatches(line, keytype, key) ==
    LET buf == Buf(line)
    IN  IF At(buf, 0) = "#" \/ At(buf, 0) = "\n" THEN FALSE
        ELSE LET o == ssh_host_authorized_keys_skip_options(buf, 0)
             IN  IF o.ret # 0 /\ o.entry # 0 THEN FALSE
                 ELSE LET t == ssh_host_authorized_keys_entry_field_matches(
                                   keytype, buf, SkipBlanks(buf, o.entry))
                      IN  IF t.ret # 0 THEN FALSE
                          ELSE ssh_host_authorized_keys_entry_field_matches(
                                   key, buf, SkipBlanks(buf, t.entry)).ret = 0

(* the getline loop: the first line that matches, 0 when none does *)
RECURSIVE FirstMatchingLine(_, _, _, _)
FirstMatchingLine(lines, keytype, key, i) ==
    IF i > Len(lines) THEN 0
    ELSE IF EntryMatches(lines[i], keytype, key) THEN i
    ELSE FirstMatchingLine(lines, keytype, key, i + 1)

(* the file fopen could not open *)
NoFile == <<NULL>>

(* file is NoFile when fopen fails, else the lines getline returns *)
ssh_host_authorized_keys_user(file, keytype, key) ==
    IF file = NoFile THEN -1
    ELSE IF FirstMatchingLine(file, keytype, key, 1) # 0 THEN 0
    ELSE -1

(* ------------------------------------------------------------------ *)
(* The dispatch pipeline: state of one git-host process                *)
(* ------------------------------------------------------------------ *)
VARIABLES
    command,      \* the -c argument
    authorized,   \* getenv("SSH_AUTHORIZED_BY"), NULL when unset
    execpathenv,  \* getenv("GIT_EXEC_PATH"), NULL when unset
    pc,           \* the function the process is in
    argv,         \* the arguments of git_host_expand_command
    mode,         \* git_host_mode of the handler
    execargs,     \* file and argument vector being handed to execl
    status,       \* exit status, -1 while the process has not exited
    diag,         \* the diagnostic of the exit
    execs,        \* the execl calls made, in order
    listed        \* the directories printed by git_host_dir, in order

dvars == <<command, authorized, execpathenv, pc, argv, mode, execargs, status, diag, execs, listed>>

(* one call of git_host_normalize_path, statement by statement *)
VARIABLES
    nraw,         \* the string the call was given
    norm,         \* path, dst, src and state of the call
    nres,         \* the value returned and the buffer left
    npc           \* "loop" in the while loop, "done" after the return

nvars == <<nraw, norm, nres, npc>>

(* one call of git_host_expand_command, statement by statement *)
VARIABLES
    eraw,         \* the command the call was given
    expand,       \* copy, it, dst, src, arg, state and the arguments pushed
    eres,         \* the outcome: an errx() or the argument vector
    epc           \* "loop" in the while loop, "done" after it

evars == <<eraw, expand, eres, epc>>

(* one run of ssh-host-authorized-keys *)
VARIABLES
    groupdb,      \* the group database, in getgrent order
    passwddb,     \* the password database, in getpwent order
    keyfiles,     \* the authorized_keys file of each home directory
    rargs,        \* -G group, -t keytype and the key
    rpc,          \* the loop main is in
    gr,           \* the group entry found
    grent,        \* the group entries read so far
    pw,           \* the password entry of the user found
    pwent,        \* the password entries read so far
    rout,         \* the lines written to standard output
    rlog,         \* the priorities of the syslog messages
    rstatus       \* the value main returned, -1 before it returns

rvars == <<groupdb, passwddb, keyfiles, rargs, rpc, gr, grent, pw, pwent, rout, rlog, rstatus>>

(* one call of ssh_host_authorized_keys_user, statement by statement *)
VARIABLES
    sfile,        \* the authorized_keys file: NoFile, or the lines getline returns
    sargs,        \* keytype and key
    spc,          \* "fopen", "getline" in the loop, "returned" after the return
    sread,        \* the number of lines getline has returned
    sentry,       \* ssh_host_authorized_keys_skip_options on the line last read
    sret          \* ret

svars == <<sfile, sargs, spc, sread, sentry, sret>>

vars == <<dvars, nvars, evars, rvars, svars>>

NoGroup == [gr_name |-> <<>>, gr_mem |-> <<>>]

NoUser == [pw_name |-> <<>>, pw_dir |-> <<>>]

RIdle ==
    /\ groupdb = <<>>
    /\ passwddb = <<>>
    /\ keyfiles = <<>>
    /\ rargs = [group |-> <<>>, keytype |-> <<>>, key |-> <<>>]
    /\ rpc = "idle"
    /\ gr = NoGroup
    /\ grent = 0
    /\ pw = NoUser
    /\ pwent = 0
    /\ rout = <<>>
    /\ rlog = <<>>
    /\ rstatus = -1

SIdle ==
    /\ sfile = <<>>
    /\ sargs = [keytype |-> <<>>, key |-> <<>>]
    /\ spc = "idle"
    /\ sread = 0
    /\ sentry = [called |-> FALSE, ret |-> 0, entry |-> 0]
    /\ sret = -1

NIdle ==
    /\ nraw = <<>>
    /\ norm = NormalizeStart(<<>>)
    /\ nres = [ret |-> 0, path |-> <<>>, dst |-> 0]
    /\ npc = "idle"

EIdle ==
    /\ eraw = <<>>
    /\ expand = ExpandStart(<<>>)
    /\ eres = [status |-> -1, diag |-> "", argc |-> 0, argv |-> <<>>]
    /\ epc = "idle"

DIdle ==
    /\ command = <<>>
    /\ authorized = NULL
    /\ execpathenv = NULL
    /\ pc = "idle"
    /\ argv = <<>>
    /\ mode = 0
    /\ execargs = <<>>
    /\ status = -1
    /\ diag = ""
    /\ execs = <<>>
    /\ listed = <<>>

(* inputs *)
ArgChars == {"/", ".", "a", "b"}

Args == SeqsUpTo(ArgChars, MaxArgLen)

SecondArgs == {<<"a">>, <<"a", "/", "b">>}

CommandNames ==
    {commands[i].name : i \in 1..commandscount}
        \cup {<<"I", "n", "i", "t">>, S_git_init, <<"s", "h">>, <<"d", "i">>}

Commands ==
    CommandNames
        \cup {n \o <<" ">> \o a : n \in CommandNames, a \in Args}
        \cup {n \o <<" ">> \o a \o <<" ">> \o b : n \in CommandNames, a \in SecondArgs, b \in SecondArgs}
        \cup {n \o <<" ">> \o a : n \in {commands[i].name : i \in 2..commandscount},
                                   a \in {S_alice_repo, S_bob_repo}}
        \cup {<<>>, <<" ">>, <<"'">>,
              S_init \o <<" ", "'", "a", "/", "b">>,
              S_init \o <<" ", "\"", "a", "/", "b", "\\">>,
              S_init \o <<" ", "'", "a", "'", "/", "\"", "b", "\"">>,
              <<"'">> \o S_init \o <<"'", " ", "a", "/", "b">>,
              S_init \o <<"'", " ", "'", "a", "/", "b">>}

Identities == {NULL, <<"a">>, <<"a", "b">>, <<>>, S_alice}

ExecPaths == {NULL, <<"/", "x">>}

RootEntries == << <<"a">>, <<".", "h">>, <<"b">> >>

DInit ==
    /\ command \in Commands
    /\ authorized \in Identities
    /\ execpathenv \in ExecPaths
    /\ pc = "main"
    /\ argv = <<>>
    /\ mode = 0
    /\ execargs = <<>>
    /\ status = -1
    /\ diag = ""
    /\ execs = <<>>
    /\ listed = <<>>

Exit(code, msg) ==
    /\ pc' = "exited"
    /\ status' = code
    /\ diag' = msg

(* main: git_host_expand_command, then git_host_exec *)
Main ==
    /\ pc = "main"
    /\ LET r == git_host_expand_command(command)
       IN  IF r.status # -1
           THEN Exit(r.status, r.diag) /\ UNCHANGED argv
           ELSE /\ argv' = r.argv
                /\ pc' = "git_host_exec"
                /\ UNCHANGED <<status, diag>>
    /\ UNCHANGED <<command, authorized, execpathenv, mode, execargs, execs, listed>>
    /\ UNCHANGED <<nvars, evars, rvars, svars>>

(* git_host_exec: the table lookup and the call of the handler *)
GitHostExec ==
    /\ pc = "git_host_exec"
    /\ LET i == CommandLookup(argv[1], 0)
       IN  IF i = commandscount
           THEN Exit(EXIT_FAILURE, "Invalid command")
           ELSE /\ pc' = commands[i + 1].exec
                /\ UNCHANGED <<status, diag>>
    /\ UNCHANGED <<command, authorized, execpathenv, argv, mode, execargs, execs, listed>>
    /\ UNCHANGED <<nvars, evars, rvars, svars>>

RECURSIVE NotHidden(_)
NotHidden(names) ==
    IF names = <<>> THEN <<>>
    ELSE IF At(Buf(Head(names)), 0) # "." THEN <<Head(names)>> \o NotHidden(Tail(names))
    ELSE NotHidden(Tail(names))

(* git_host_exec_dir: chdir, then git_host_dir of each name until a scandir fails *)
GitHostExecDir ==
    /\ pc = "git_host_exec_dir"
    /\ \E chdirok \in BOOLEAN :
          IF ~chdirok
          THEN Exit(EXIT_FAILURE, "chdir") /\ UNCHANGED listed
          ELSE LET dirs == IF Len(argv) = 1 THEN NotHidden(RootEntries)
                           ELSE NotHidden(Tail(argv))
               IN  \E n \in 0..Len(dirs) :
                      /\ listed' = SubSeq(dirs, 1, n)
                      /\ IF n = Len(dirs) THEN Exit(EXIT_SUCCESS, "")
                         ELSE Exit(EXIT_FAILURE, "scandir")
    /\ UNCHANGED <<command, authorized, execpathenv, argv, mode, execargs, execs>>
    /\ UNCHANGED <<nvars, evars, rvars, svars>>

Usage ==
    /\ Exit(EXIT_FAILURE, "usage")
    /\ UNCHANGED <<mode, execargs>>

(* git_host_exec_init up to the evaluation of the arguments of execl *)
GitHostExecInit ==
    /\ pc = "git_host_exec_init"
    /\ IF Len(argv) # 2
       THEN Usage
       ELSE /\ mode' = GIT_HOST_MODE_WR
            /\ execargs' = <<S_git_init, S_git_init, S_quiet, S_bare, S_dashdash>>
            /\ pc' = "git_host_repository"
            /\ UNCHANGED <<status, diag>>
    /\ UNCHANGED <<command, authorized, execpathenv, argv, execs, listed>>
    /\ UNCHANGED <<nvars, evars, rvars, svars>>

(* git_host_exec_rx_tx accepting more than one argument after the name *)
git_host_exec_rx_tx_min_arity(m) ==
    /\ IF Len(argv) < 2
       THEN Usage
       ELSE /\ mode' = m
            /\ execargs' = <<argv[1], argv[1]>>
            /\ pc' = "git_host_repository"
            /\ UNCHANGED <<status, diag>>
    /\ UNCHANGED <<command, authorized, execpathenv, argv, execs, listed>>
    /\ UNCHANGED <<nvars, evars, rvars, svars>>

(* git_host_exec_rx_tx up to the evaluation of the arguments of execl *)
git_host_exec_rx_tx(m) ==
    /\ IF Len(argv) # 2
       THEN Usage
       ELSE /\ mode' = m
            /\ execargs' = <<argv[1], argv[1]>>
            /\ pc' = "git_host_repository"
            /\ UNCHANGED <<status, diag>>
    /\ UNCHANGED <<command, authorized, execpathenv, argv, execs, listed>>
    /\ UNCHANGED <<nvars, evars, rvars, svars>>

GitHostExecGitReceivePack ==
    /\ pc = "git_host_exec_git_receive_pack"
    /\ git_host_exec_rx_tx(GIT_HOST_MODE_WR)

GitHostExecGitUploadX ==
    /\ pc = "git_host_exec_git_upload_X"
    /\ git_host_exec_rx_tx(GIT_HOST_MODE_RO)

(* git_host_repository(argv[1], mode) and git_host_execpath(argv0) *)
GitHostRepository ==
    /\ pc = "git_host_repository"
    /\ LET r == git_host_repository(argv[2], mode, authorized)
       IN  IF r.status # -1
           THEN Exit(r.status, r.diag) /\ UNCHANGED execargs
           ELSE /\ execargs' = <<git_host_execpath(execpathenv, Head(execargs))>>
                                  \o Tail(execargs) \o <<r.path>>
                /\ pc' = "execl"
                /\ UNCHANGED <<status, diag>>
    /\ UNCHANGED <<command, authorized, execpathenv, argv, mode, execs, listed>>
    /\ UNCHANGED <<nvars, evars, rvars, svars>>

(* execl: the process image is replaced, or err() reports the failure *)
Execl ==
    /\ pc = "execl"
    /\ \E ok \in BOOLEAN :
          /\ execs' = Append(execs, [file |-> Head(execargs), argv |-> Tail(execargs), ok |-> ok])
          /\ IF ok
             THEN pc' = "replaced" /\ UNCHANGED <<status, diag>>
             ELSE Exit(EXIT_ERR_MINUS_1, "exec")
    /\ UNCHANGED <<command, authorized, execpathenv, argv, mode, execargs, listed>>
    /\ UNCHANGED <<nvars, evars, rvars, svars>>

DNext ==
    \/ Main
    \/ GitHostExec
    \/ GitHostExecDir
    \/ GitHostExecInit
    \/ GitHostExecGitReceivePack
    \/ GitHostExecGitUploadX
    \/ GitHostRepository
    \/ Execl

Init == DInit /\ NIdle /\ EIdle /\ RIdle /\ SIdle

Next == DNext

Spec == Init /\ [][Next]_vars

(* ------------------------------------------------------------------ *)
(* git_host_normalize_path run on its own                              *)
(* ------------------------------------------------------------------ *)
PathChars == {"/", ".", "a"}

Paths == SeqsUpTo(PathChars, MaxPathLen)

NInit ==
    /\ nraw \in Paths
    /\ norm = NormalizeStart(nraw)
    /\ nres = [ret |-> 0, path |-> <<>>, dst |-> 0]
    /\ npc = "loop"

(* one iteration of while (path[src] != 0) *)
NormalizeLoop ==
    /\ npc = "loop"
    /\ At(norm.path, norm.src) # NUL
    /\ norm' = NormalizeStep(norm)
    /\ UNCHANGED <<nraw, nres, npc>>
    /\ UNCHANGED <<dvars, evars, rvars, svars>>

(* the loop ends: the final switch, the terminator and the return *)
NormalizeReturn ==
    /\ npc = "loop"
    /\ At(norm.path, norm.src) = NUL
    /\ nres' = NormalizeFinish(norm)
    /\ npc' = "done"
    /\ UNCHANGED <<nraw, norm>>
    /\ UNCHANGED <<dvars, evars, rvars, svars>>

NNext == NormalizeLoop \/ NormalizeReturn

InitNormalize == NInit /\ DIdle /\ EIdle /\ RIdle /\ SIdle

SpecNormalize == InitNormalize /\ [][NNext]_vars

(* ------------------------------------------------------------------ *)
(* git_host_expand_command run on its own                              *)
(* ------------------------------------------------------------------ *)
CommandChars == {" ", "\t", "\"", "'", "\\", "a"}

ExampleCommands ==
    {<<"c", "m", "d", " ", "\"", "a", "\\", "\"", "b", "\"">>,
     <<"c", "m", "d", " ", "\"", "a", "\\", "\\", "b", "\"">>,
     <<"c", "m", "d", " ", "\"", "a", "\\", "n", "b", "\"">>,
     <<"c", "m", "d", " ", "'", "u", "n", "t", "e", "r", "m", "i", "n", "a", "t", "e", "d">>,
     S_git_upload_pack \o <<" ", "'", "m", "y", " ", "r", "e", "p", "o", "'">>,
     <<"a", "'", "b", " ", "c", "'", "d">>}

RawCommands == SeqsUpTo(CommandChars, MaxCmdLen) \cup ExampleCommands

EInit ==
    /\ eraw \in RawCommands
    /\ expand = ExpandStart(eraw)
    /\ eres = [status |-> -1, diag |-> "", argc |-> 0, argv |-> <<>>]
    /\ epc = "loop"

(* one iteration of while (state < EXPAND_END) *)
ExpandLoop ==
    /\ epc = "loop"
    /\ ExpandRunning(expand)
    /\ expand' = ExpandStep(expand)
    /\ UNCHANGED <<eraw, eres, epc>>
    /\ UNCHANGED <<dvars, nvars, rvars, svars>>

(* the loop ends: one of the two errx(), or the argument vector *)
ExpandReturn ==
    /\ epc = "loop"
    /\ ~ExpandRunning(expand)
    /\ eres' = ExpandFinish(expand)
    /\ epc' = "done"
    /\ UNCHANGED <<eraw, expand>>
    /\ UNCHANGED <<dvars, nvars, rvars, svars>>

ENext == ExpandLoop \/ ExpandReturn

InitExpand == EInit /\ DIdle /\ NIdle /\ RIdle /\ SIdle

SpecExpand == InitExpand /\ [][ENext]_vars

(* ------------------------------------------------------------------ *)
(* ssh-host-authorized-keys: main                                      *)
(* ------------------------------------------------------------------ *)
S_bob == <<"b", "o", "b">>
S_carol == <<"c", "a", "r", "o", "l">>
S_devs == <<"d", "e", "v", "s">>
S_ops == <<"o", "p", "s">>
S_ssh_ed25519 == sshd_authorized_keys_types[6]
S_ssh_rsa == sshd_authorized_keys_types[8]
S_AAAAKEY == <<"A", "A", "A", "A", "K", "E", "Y">>

L_plain == S_ssh_ed25519 \o <<" ">> \o S_AAAAKEY \o <<"\n">>
L_noeol == S_ssh_ed25519 \o <<" ">> \o S_AAAAKEY
L_comment == S_ssh_ed25519 \o <<" ">> \o S_AAAAKEY \o <<" ", "c", "\n">>
L_longer == S_ssh_ed25519 \o <<" ">> \o S_AAAAKEY \o <<"X", " ", "c", "\n">>
L_rsa == S_ssh_rsa \o <<"\t">> \o S_AAAAKEY \o <<" ", "c", "\n">>
L_hash == <<"#", " ", "c", "\n">>
L_options == <<"c", "o", "m", "m", "a", "n", "d", "=", "\"", "e", "c", "h", "o", " ", "1", "\"", ",", "n", "o", "-", "p", "t", "y", ",", "e", "n", "v", "i", "r", "o", "n", "m", "e", "n", "t", "=", "\"", "X", "=", "1", "\"">> \o <<" ">> \o L_comment
L_unterminated == <<"c", "o", "m", "m", "a", "n", "d", "=", "\"", "x">> \o <<" ">> \o L_comment

Users == {S_alice, S_bob, S_carol}

Home(u) == <<"/">> \o u

Files ==
    {NoFile, <<>>, <<L_plain>>, <<L_noeol>>, <<L_comment>>,
     <<L_hash, L_longer, L_options>>, <<L_rsa, L_unterminated>>}

RECURSIVE Orders(_)
Orders(S) ==
    IF S = {} THEN {<<>>}
    ELSE UNION {{<<u>> \o t : t \in Orders(S \ {u})} : u \in S}

PasswdDBs ==
    {[i \in 1..Len(o) |-> [pw_name |-> o[i], pw_dir |-> Home(o[i])]] :
        o \in UNION {Orders(S) : S \in SUBSET Users}}

MemberLists ==
    {<<>>, <<S_alice>>, <<S_bob, S_alice>>, <<S_carol, S_alice, S_bob>>}

GroupDBs ==
    {<<>>}
        \cup {<<[gr_name |-> S_devs, gr_mem |-> m]>> : m \in MemberLists}
        \cup {<<[gr_name |-> S_ops, gr_mem |-> <<S_carol, S_bob>>],
                [gr_name |-> S_devs, gr_mem |-> m],
                [gr_name |-> S_devs, gr_mem |-> <<S_carol>>]>> : m \in MemberLists}

RInit ==
    /\ groupdb \in GroupDBs
    /\ passwddb \in PasswdDBs
    /\ keyfiles \in [{Home(u) : u \in Users} -> Files]
    /\ rargs = [group |-> S_devs, keytype |-> S_ssh_ed25519, key |-> S_AAAAKEY]
    /\ rpc = "getgrent"
    /\ gr = NoGroup
    /\ grent = 0
    /\ pw = NoUser
    /\ pwent = 0
    /\ rout = <<>>
    /\ rlog = <<>>
    /\ rstatus = -1

(* if (gr == NULL) and if (pw == NULL): the syslog priority and the value *)
(* returned, by errno *)
NullEntry(errno) ==
    IF errno # 0
    THEN [priority |-> "LOG_ERR", status |-> EXIT_FAILURE]
    ELSE [priority |-> "LOG_INFO", status |-> EXIT_FAILURE]

Return(r) ==
    /\ rpc' = "returned"
    /\ rstatus' = r.status
    /\ rlog' = Append(rlog, r.priority)

(* the member test looking at the first member only *)
IsMemberFirstOnly(name, members) ==
    members # <<>> /\ strcmp(Buf(name), Buf(Head(members))) = 0

(* the inner while loop of main over gr_mem: TRUE when it stops on a member *)
RECURSIVE IsMember(_, _)
IsMember(name, members) ==
    IF members # <<>> /\ strcmp(Buf(name), Buf(Head(members))) # 0
    THEN IsMember(name, Tail(members))
    ELSE members # <<>>

(* the printf of main *)
AuthorizedKeyEntry(name, keytype, key) ==
    <<"e", "n", "v", "i", "r", "o", "n", "m", "e", "n", "t", "=", "\"", "S", "S", "H", "_", "A", "U", "T", "H", "O", "R", "I", "Z", "E", "D", "_", "B", "Y", "=">> \o name \o <<"\"", " ">> \o keytype \o <<" ">> \o key \o <<"\n">>

(* one iteration of the getgrent loop; at the end of the database the *)
(* group is reported missing *)
GetGrEnt ==
    /\ rpc = "getgrent"
    /\ IF grent = Len(groupdb)
       THEN Return(NullEntry(0)) /\ UNCHANGED <<gr, grent>>
       ELSE IF strcmp(Buf(rargs.group), Buf(groupdb[grent + 1].gr_name)) # 0
       THEN grent' = grent + 1 /\ UNCHANGED <<gr, rpc, rstatus, rlog>>
       ELSE /\ gr' = groupdb[grent + 1]
            /\ grent' = grent + 1
            /\ rpc' = "getpwent"
            /\ UNCHANGED <<rstatus, rlog>>
    /\ UNCHANGED <<groupdb, passwddb, keyfiles, rargs, pw, pwent, rout>>
    /\ UNCHANGED <<dvars, nvars, evars, svars>>

(* getgrent returns NULL and sets errno *)
GetGrEntError ==
    /\ rpc = "getgrent"
    /\ Return(NullEntry(1))
    /\ UNCHANGED <<groupdb, passwddb, keyfiles, rargs, gr, grent, pw, pwent, rout>>
    /\ UNCHANGED <<dvars, nvars, evars, svars>>

(* one iteration of the getpwent loop; at the end of the database no user *)
(* is reported *)
GetPwEnt ==
    /\ rpc = "getpwent"
    /\ IF pwent = Len(passwddb)
       THEN Return(NullEntry(0)) /\ UNCHANGED <<pw, pwent>>
       ELSE LET e == passwddb[pwent + 1]
            IN  IF IsMember(e.pw_name, gr.gr_mem)
                      /\ ssh_host_authorized_keys_user(keyfiles[e.pw_dir],
                                                       rargs.keytype, rargs.key) = 0
                THEN /\ pw' = e
                     /\ pwent' = pwent + 1
                     /\ rlog' = Append(rlog, "LOG_INFO")
                     /\ rpc' = "printf"
                     /\ UNCHANGED rstatus
                ELSE pwent' = pwent + 1 /\ UNCHANGED <<pw, rpc, rstatus, rlog>>
    /\ UNCHANGED <<groupdb, passwddb, keyfiles, rargs, gr, grent, rout>>
    /\ UNCHANGED <<dvars, nvars, evars, svars>>

(* getpwent returns NULL and sets errno *)
GetPwEntError ==
    /\ rpc = "getpwent"
    /\ Return(NullEntry(1))
    /\ UNCHANGED <<groupdb, passwddb, keyfiles, rargs, gr, grent, pw, pwent, rout>>
    /\ UNCHANGED <<dvars, nvars, evars, svars>>

(* the printf of the entry and return EXIT_SUCCESS *)
PrintEntry ==
    /\ rpc = "printf"
    /\ rout' = Append(rout, AuthorizedKeyEntry(pw.pw_name, rargs.keytype, rargs.key))
    /\ rpc' = "returned"
    /\ rstatus' = EXIT_SUCCESS
    /\ UNCHANGED <<groupdb, passwddb, keyfiles, rargs, gr, grent, pw, pwent, rlog>>
    /\ UNCHANGED <<dvars, nvars, evars, svars>>

RNext == GetGrEnt \/ GetGrEntError \/ GetPwEnt \/ GetPwEntError \/ PrintEntry

InitResolve == RInit /\ DIdle /\ NIdle /\ EIdle /\ SIdle

SpecResolve == InitResolve /\ [][RNext]_vars

(* ------------------------------------------------------------------ *)
(* ssh_host_authorized_keys_user run on its own                        *)
(* ------------------------------------------------------------------ *)
S_no == <<"n", "o", "-">>

Quoted(v) == <<"=", "\"">> \o v \o <<"\"">>

(* options as they are written in a key file *)
O_restrict == options[1].name
O_pty == options[8].name
O_no_pty == S_no \o options[8].name
O_NO_PTY == <<"N", "O", "-", "P", "T", "Y">>
O_no_port_forwarding == S_no \o options[3].name
O_command == options[10].name \o Quoted(<<"e", "c", "h", "o", " ", "1">>)
O_environment == options[14].name \o Quoted(<<"X", "=", "1">>)
O_from == options[12].name \o Quoted(<<"a", " ", "b", ",", "c", "\\", "\"", "d">>)

InputOptions ==
    {O_restrict, O_pty, O_no_pty, O_NO_PTY, O_no_port_forwarding,
     O_command, O_environment, O_from}

(* option clauses sshd accepts *)
GoodClauses ==
    InputOptions
        \cup {a \o <<",">> \o b : a \in InputOptions, b \in InputOptions}
        \cup {O_command \o <<",">> \o O_no_pty \o <<",">> \o O_environment}

(* option clauses sshd refuses: unknown names, malformed values, empty elements *)
BadClauses ==
    {<<"b", "o", "g", "u", "s">>, O_restrict \o <<",", "b", "o", "g", "u", "s">>, O_pty \o <<"x">>, S_no \o O_restrict,
     options[10].name, options[10].name \o <<"=", "x">>, options[10].name \o <<"=", "\"", "x">>,
     O_command \o <<"y">>, <<",">> \o O_restrict, O_restrict \o <<",", ",">> \o O_pty,
     O_restrict \o <<",">>, <<",">>}

L_blank == <<"\n">>
L_blanks == <<" ", "\t", "\n">>
L_indented == <<" ">> \o L_comment
L_spaced == S_ssh_ed25519 \o <<"\t", " ">> \o S_AAAAKEY \o <<"\t", "c", "\n">>
L_longtype == S_ssh_ed25519 \o <<"X", " ">> \o S_AAAAKEY \o <<" ", "c", "\n">>

PlainLines ==
    {L_plain, L_noeol, L_comment, L_longer, L_rsa, L_hash, L_blank, L_blanks,
     L_indented, L_spaced, L_longtype}

Lines ==
    PlainLines
        \cup {c \o <<" ">> \o L_comment : c \in GoodClauses \cup BadClauses}
        \cup {c \o <<"\t">> \o L_plain : c \in InputOptions}

(* lines put before another line of a file *)
LinesBefore ==
    {L_hash, L_blank, L_blanks, L_longer, L_rsa, L_unterminated, L_comment, L_plain,
     <<"b", "o", "g", "u", "s", " ">> \o L_comment, <<",", ",", " ">> \o L_comment}

ScanFiles ==
    {NoFile, <<>>}
        \cup {<<l>> : l \in Lines}
        \cup {<<p, l>> : p \in LinesBefore, l \in Lines}
        \cup {<<p, q, l>> : p \in {L_hash, L_unterminated}, q \in {L_blank, L_longer},
                            l \in PlainLines \cup {L_options}}

SInit ==
    /\ sfile \in ScanFiles
    /\ sargs = [keytype |-> S_ssh_ed25519, key |-> S_AAAAKEY]
    /\ spc = "fopen"
    /\ sread = 0
    /\ sentry = [called |-> FALSE, ret |-> 0, entry |-> 0]
    /\ sret = -1

(* fopen: a file that cannot be opened leaves ret at -1 *)
FOpen ==
    /\ spc = "fopen"
    /\ spc' = IF sfile = NoFile THEN "returned" ELSE "getline"
    /\ UNCHANGED <<sfile, sargs, sread, sentry, sret>>
    /\ UNCHANGED <<dvars, nvars, evars, rvars>>

(* what the body of the loop leaves in entry after skipping the options *)
OptionsOf(line) ==
    LET buf == Buf(line)
    IN  IF At(buf, 0) = "#" \/ At(buf, 0) = "\n"
        THEN [called |-> FALSE, ret |-> 0, entry |-> 0]
        ELSE LET o == ssh_host_authorized_keys_skip_options(buf, 0)
             IN  [called |-> TRUE, ret |-> o.ret, entry |-> o.entry]

(* one getline and the body of the loop; at the end of the file, the return *)
GetLine ==
    /\ spc = "getline"
    /\ IF sread = Len(sfile)
       THEN spc' = "returned" /\ UNCHANGED <<sread, sentry, sret>>
       ELSE LET line == sfile[sread + 1]
            IN  /\ sread' = sread + 1
                /\ sentry' = OptionsOf(line)
                /\ IF EntryMatches(line, sargs.keytype, sargs.key)
                   THEN sret' = 0 /\ spc' = "returned"
                   ELSE UNCHANGED <<sret, spc>>
    /\ UNCHANGED <<sfile, sargs>>
    /\ UNCHANGED <<dvars, nvars, evars, rvars>>

SNext == FOpen \/ GetLine

InitScan == SInit /\ DIdle /\ NIdle /\ EIdle /\ RIdle

SpecScan == InitScan /\ [][SNext]_vars

(* ------------------------------------------------------------------ *)
(* Properties of the dispatch pipeline                                 *)
(* ------------------------------------------------------------------ *)
TableNames == {S_dir, S_init, S_git_receive_pack, S_git_upload_archive, S_git_upload_pack}

MutatingNames == {S_init, S_git_receive_pack}

ReadOnlyNames == {S_git_upload_archive, S_git_upload_pack}

Last(s) == s[Len(s)]

StartsWith(s, prefix) ==
    Len(s) >= Len(prefix) /\ SubSeq(s, 1, Len(prefix)) = prefix

Components(owner, name) ==
    /\ owner # <<>>
    /\ name # <<>>
    /\ \A i \in 1..Len(owner) : owner[i] # "/"
    /\ \A i \in 1..Len(name) : name[i] # "/"
    /\ owner \notin {<<".">>, <<".", ".">>}
    /\ name \notin {<<".">>, <<".", ".">>}
    /\ name[1] # "."

(* p is <owner>/<name> for some well-formed owner and name *)
OwnerSlashName(p) ==
    \E i \in 1..Len(p) :
        /\ p[i] = "/"
        /\ Components(SubSeq(p, 1, i - 1), SubSeq(p, i + 1, Len(p)))

(* the first component of a path that holds a separator *)
OwnerOf(p) ==
    LET i == CHOOSE k \in 1..Len(p) : p[k] = "/" /\ \A j \in 1..(k - 1) : p[j] # "/"
    IN  SubSeq(p, 1, i - 1)

Slashes(p) == Cardinality({i \in 1..Len(p) : p[i] = "/"})

(* the handler has evaluated git_host_repository *)
PastRepository ==
    \/ pc \in {"execl", "replaced"}
    \/ pc = "exited" /\ diag \in {"Invalid repository path", "Missing authorization", "exec"}

RepositoryPrefix == CONFIG_GIT_HOST_REPOSITORIES \o <<"/">>

C2_IdentityEnforcement ==
    /\ (pc \in {"execl", "replaced"} \/ execs # <<>>) /\ argv[1] \in MutatingNames =>
          /\ authorized # NULL
          /\ Len(authorized) = Len(OwnerOf(git_host_normalize_path(argv[2]).path))
          /\ \A i \in 1..Len(authorized) :
                authorized[i] = git_host_normalize_path(argv[2]).path[i]
    /\ (PastRepository /\ argv[1] \in MutatingNames /\ authorized = S_alice) =>
          /\ argv[2] = S_alice_repo => diag \notin {"Invalid repository path", "Missing authorization"}
          /\ argv[2] = S_bob_repo =>
                pc = "exited" /\ status = EXIT_FAILURE /\ diag = "Invalid repository path"
    /\ (PastRepository /\ argv[1] \in ReadOnlyNames
            /\ git_host_normalize_path(argv[2]).ret = 0
            /\ OwnerSlashName(git_host_normalize_path(argv[2]).path)) =>
          diag \notin {"Invalid repository path", "Missing authorization"}

C2_Witness ==
    /\ pc = "exited"
    /\ diag = "Invalid repository path"
    /\ argv[1] = S_git_receive_pack
    /\ argv[2] = S_bob_repo
    /\ authorized = S_alice

(* the program a table entry stands for *)
ProgramOf(name) == IF name = S_init THEN S_git_init ELSE name

(* C3: a command line whose first argument is not, case-sensitively, one of *)
(* the five table names is rejected as an invalid command: no handler runs, *)
(* nothing is exec'd or listed, whatever the other arguments are; and the *)
(* program a handler execs is the one of the table entry that matched. *)
C3_RouterClosed ==
    /\ (argv # <<>> /\ argv[1] \notin TableNames) =>
          /\ pc \in {"git_host_exec", "exited"}
          /\ pc = "exited" => status = EXIT_FAILURE /\ diag = "Invalid command"
          /\ execs = <<>>
          /\ listed = <<>>
    /\ \A k \in 1..Len(execs) :
          /\ argv[1] \in TableNames \ {S_dir}
          /\ execs[k].file = git_host_pathcat(IF execpathenv = NULL THEN CONFIG_GIT_EXEC_PATH
                                              ELSE execpathenv, ProgramOf(argv[1]))
          /\ execs[k].argv[1] = ProgramOf(argv[1])

C3_Witness ==
    /\ pc = "exited"
    /\ diag = "Invalid command"
    /\ argv = << <<"I", "n", "i", "t">>, <<"a", "/", "b">> >>
    /\ authorized = <<"a">>

FailureDiags ==
    {"Unclosed quote", "empty command", "Invalid command", "usage",
     "Invalid repository path", "Missing authorization"}

(* C4: at most one exec happens in a run, and only after the tokenizer *)
(* succeeded, the command was found in the table, the arity check passed and *)
(* the path was normalized and passed the sandbox and identity check; a *)
(* failure of any of these steps ends the run with a non-zero exit and no *)
(* exec; nothing runs after the exec. *)
C4_ValidationPrecedesExec ==
    /\ [](/\ Len(execs) <= 1
          /\ execs # <<>> =>
                /\ git_host_expand_command(command).status = -1
                /\ argv = git_host_expand_command(command).argv
                /\ CommandLookup(argv[1], 0) < commandscount
                /\ Len(argv) = 2
                /\ git_host_repository(argv[2], mode, authorized).status = -1
                /\ Last(execs[1].argv) = git_host_repository(argv[2], mode, authorized).path
          /\ (pc = "exited" /\ diag \in FailureDiags) => status # 0 /\ execs = <<>>
          /\ (pc = "exited" /\ status = 0) => argv # <<>> /\ argv[1] = S_dir)
    /\ [][execs' # execs => pc = "execl" /\ execs = <<>> /\ pc' \in {"replaced", "exited"}]_vars
    /\ [][(pc \in {"replaced", "exited"}) => (vars' = vars)]_vars

C4_Witness ==
    /\ pc = "exited"
    /\ diag = "usage"
    /\ Len(argv) = 3
    /\ argv[1] = S_git_upload_pack
    /\ execs = <<>>

(* ------------------------------------------------------------------ *)
(* Properties of git_host_normalize_path                               *)
(* ------------------------------------------------------------------ *)
(* the components of p: the pieces between its separators *)
RECURSIVE Split(_)
Split(p) ==
    LET i == IndexOf(p, "/", 1)
    IN  IF i = 0 THEN <<p>>
        ELSE <<SubSeq(p, 1, i - 1)>> \o Split(SubSeq(p, i + 1, Len(p)))

(* C5: a successful normalization never escapes the sandbox root, whatever *)
(* the input and wherever its '..' components are: the result has no leading *)
(* '/', no component '..' or '.', no empty component and no trailing '/'. *)
C5_NormalizedStaysUnderRoot ==
    (npc = "done" /\ nres.ret = 0) =>
        /\ nres.path # <<>>
        /\ nres.path[1] # "/"
        /\ nres.path[Len(nres.path)] # "/"
        /\ \A k \in 1..Len(Split(nres.path)) :
              Split(nres.path)[k] \notin {<<>>, <<".">>, <<".", ".">>}

C5_Witness ==
    /\ npc = "done"
    /\ nres.ret = 0
    /\ nraw = <<".", ".", "/", ".", ".", "/", "a">>
    /\ nres.path = <<"a">>

(* C6: normalization is idempotent: when git_host_normalize_path succeeds *)
(* with result p, normalizing p succeeds again and leaves exactly p. *)
C6_NormalizeIdempotent ==
    (npc = "done" /\ nres.ret = 0) =>
        /\ git_host_normalize_path(nres.path).ret = 0
        /\ git_host_normalize_path(nres.path).path = nres.path

C6_Witness ==
    /\ npc = "done"
    /\ nres.ret = 0
    /\ nraw = <<"a", "/", "a", ".", "/", ".", ".">>
    /\ nres.path = <<"a">>

(* ------------------------------------------------------------------ *)
(* Properties of git_host_expand_command                               *)
(* ------------------------------------------------------------------ *)
(* the inside of a double-quoted span: every quote in it is escaped and it *)
(* does not end in the middle of an escape *)
RECURSIVE DoubleQuotedBody(_)
DoubleQuotedBody(b) ==
    IF b = <<>> THEN TRUE
    ELSE IF Head(b) = "\\" THEN Len(b) >= 2 /\ DoubleQuotedBody(SubSeq(b, 3, Len(b)))
    ELSE IF Head(b) = "\"" THEN FALSE
    ELSE DoubleQuotedBody(Tail(b))

(* what the span stands for when a backslash escapes only '"' and '\' *)
RECURSIVE ShellUnescape(_)
ShellUnescape(b) ==
    IF b = <<>> THEN <<>>
    ELSE IF Head(b) = "\\"
    THEN (IF b[2] \in {"\"", "\\"} THEN <<b[2]>> ELSE <<"\\", b[2]>>)
             \o ShellUnescape(SubSeq(b, 3, Len(b)))
    ELSE <<Head(b)>> \o ShellUnescape(Tail(b))

(* C7: inside a double-quoted span a backslash escapes only a following '"' *)
(* or '\': backslash-quote yields '"', backslash-backslash yields '\', and a *)
(* backslash before any other character X yields backslash and X; the *)
(* command cmd "a\"b" yields the arguments cmd and a"b. *)
C7_BackslashEscapesQuoteAndBackslashOnly ==
    epc = "done" =>
        /\ (/\ Len(eraw) >= 2
            /\ eraw[1] = "\""
            /\ eraw[Len(eraw)] = "\""
            /\ DoubleQuotedBody(SubSeq(eraw, 2, Len(eraw) - 1))) =>
              /\ eres.status = -1
              /\ eres.argv = <<ShellUnescape(SubSeq(eraw, 2, Len(eraw) - 1))>>
        /\ eraw = <<"c", "m", "d", " ", "\"", "a", "\\", "\"", "b", "\"">> =>
              eres.argv = << <<"c", "m", "d">>, <<"a", "\"", "b">> >>

(* C8: a command that is empty or made only of blanks, spaces or tabs, fails *)
(* with the empty-command error and yields no argument list; the error is *)
(* raised exactly when the tokenizer ends with zero arguments. *)
C8_BlankCommandIsEmpty ==
    epc = "done" =>
        /\ (\A i \in 1..Len(eraw) : eraw[i] \in {" ", "\t"}) =>
              /\ eres.status = EXIT_FAILURE
              /\ eres.diag = "empty command"
              /\ eres.argv = <<>>
        /\ eres.diag = "empty command" <=> (expand.state = "END" /\ expand.argv = <<>>)

(* ------------------------------------------------------------------ *)
(* Properties of ssh-host-authorized-keys                              *)
(* ------------------------------------------------------------------ *)
LookupError == \E i \in 1..Len(rlog) : rlog[i] = "LOG_ERR"

(* C9: a key-file line made of the key type, blanks and the key with nothing *)
(* after the key authorizes that type and key; with group devs of the one *)
(* member alice, whose key file holds the line ssh-ed25519 AAAAKEY, the *)
(* resolver asked for ssh-ed25519, AAAAKEY and devs writes exactly one line, *)
(* which binds SSH_AUTHORIZED_BY to alice and carries the type and the key. *)
C9_KeyWithoutCommentAuthorizes ==
    (/\ rpc = "returned"
     /\ ~LookupError
     /\ groupdb = <<[gr_name |-> S_devs, gr_mem |-> <<S_alice>>]>>
     /\ passwddb = <<[pw_name |-> S_alice, pw_dir |-> Home(S_alice)]>>
     /\ keyfiles[Home(S_alice)] \in {<<L_plain>>, <<L_noeol>>}) =>
        /\ rstatus = EXIT_SUCCESS
        /\ rout = <<AuthorizedKeyEntry(S_alice, S_ssh_ed25519, S_AAAAKEY)>>

(* a member of the group, by the names in its list *)
Listed(name, g) == \E i \in 1..Len(g.gr_mem) : g.gr_mem[i] = name

(* the file holds a line the matcher accepts *)
HoldsKey(file) ==
    /\ file # NoFile
    /\ \E i \in 1..Len(file) : EntryMatches(file[i], rargs.keytype, rargs.key)

(* the group entries named by -G, in database order *)
NamedGroups == {i \in 1..Len(groupdb) : groupdb[i].gr_name = rargs.group}

(* the users the policy may resolve to, as positions in the password database *)
Candidates ==
    IF NamedGroups = {} THEN {}
    ELSE LET g == groupdb[CHOOSE i \in NamedGroups : \A j \in NamedGroups : i <= j]
         IN  {k \in 1..Len(passwddb) :
                 Listed(passwddb[k].pw_name, g) /\ HoldsKey(keyfiles[passwddb[k].pw_dir])}

(* C10: the result is a function of the databases and key files: exactly one *)
(* line environment="SSH_AUTHORIZED_BY=<u>" <type> <key> for the first user u, *)
(* in password-database order, who is listed in the named group and whose key *)
(* file holds a matching line; a user that is not listed is never resolved; *)
(* the enumeration stops at u; without such a user, and whenever a lookup *)
(* fails, nothing is written to standard output. *)
C10_FirstMatchInPasswdOrder ==
    /\ Len(rout) <= 1
    /\ rpc # "returned" => rout = <<>>
    /\ (rpc = "returned" /\ LookupError) => rout = <<>> /\ rstatus = EXIT_FAILURE
    /\ (rpc = "returned" /\ ~LookupError) =>
          IF Candidates = {}
          THEN rout = <<>> /\ rstatus = EXIT_FAILURE
          ELSE LET k == CHOOSE i \in Candidates : \A j \in Candidates : i <= j
               IN  /\ rout = <<AuthorizedKeyEntry(passwddb[k].pw_name, rargs.keytype, rargs.key)>>
                   /\ pwent = k
                   /\ rstatus = EXIT_SUCCESS

C10_Witness ==
    /\ rpc = "returned"
    /\ Len(groupdb) = 3
    /\ groupdb[1].gr_name = S_ops
    /\ groupdb[2].gr_mem = <<S_carol, S_alice, S_bob>>
    /\ Len(passwddb) = 3
    /\ passwddb[1].pw_name = S_carol
    /\ passwddb[2].pw_name = S_bob
    /\ keyfiles[Home(S_carol)] = <<L_rsa, L_unterminated>>
    /\ keyfiles[Home(S_bob)] = <<L_hash, L_longer, L_options>>
    /\ keyfiles[Home(S_alice)] = <<L_comment>>
    /\ rout = <<AuthorizedKeyEntry(S_bob, S_ssh_ed25519, S_AAAAKEY)>>
    /\ pwent = 2

(* ------------------------------------------------------------------ *)
(* Failures of the dispatch pipeline and of the resolver, dir           *)
(* ------------------------------------------------------------------ *)
(* C12: a mutating request made with SSH_AUTHORIZED_BY unset fails with *)
(* "Missing authorization" whatever its path argument is, well-formed or *)
(* not: it never ends with the path-validation diagnostic and never *)
(* reaches execl. *)
C12_MissingAuthorizationBeforePathChecks ==
    (mode = GIT_HOST_MODE_WR /\ authorized = NULL /\ pc # "git_host_repository") =>
        (pc = "exited" /\ diag = "Missing authorization")

(* C13: the exit status tells the kind of failure. A usage or validation *)
(* failure exits with a non-zero status that is neither the status *)
(* git_host_exec gives an unknown command nor the status of a failed *)
(* execl, and these two differ from each other as well. The status of a *)
(* validation failure is compared in the shape git_host_expand_command and *)
(* git_host_repository return it. *)
ValidationStatuses ==
    {git_host_expand_command(<<>>).status,
     git_host_repository(<<>>, GIT_HOST_MODE_RO, NULL).status}

C13_ExitStatusTellsFailureKind ==
    pc = "exited" =>
        /\ diag \in {"usage", "Unclosed quote", "empty command", "Invalid repository path"} =>
              status \notin {EXIT_SUCCESS, EXIT_ERR_MINUS_1}
        /\ diag = "Invalid command" =>
              status \notin {EXIT_SUCCESS, EXIT_ERR_MINUS_1} \cup ValidationStatuses
        /\ diag = "exec" =>
              status \notin {EXIT_SUCCESS} \cup ValidationStatuses

(* C14: a run that ends without a match and a run that ends on a lookup *)
(* error are told apart by the value main returns and by the priority of *)
(* the message logged: a failed getgrent or getpwent is logged with *)
(* LOG_ERR and returns a value that is neither EXIT_SUCCESS nor the value *)
(* returned when the group or the user is not found, which is logged *)
(* with LOG_INFO. *)
C14_NoMatchAndLookupErrorDiffer ==
    (rpc = "returned" /\ rout = <<>>) =>
        IF LookupError
        THEN /\ Last(rlog) = "LOG_ERR"
             /\ rstatus \notin {EXIT_SUCCESS, NullEntry(0).status}
        ELSE /\ Last(rlog) = "LOG_INFO"
             /\ rstatus \notin {EXIT_SUCCESS, NullEntry(1).status}

(* how deep under the repositories root the components lead from depth d, *)
(* -1 once they climb above the root *)
RECURSIVE Descend(_, _)
Descend(comps, d) ==
    IF comps = <<>> THEN d
    ELSE IF Head(comps) \in {<<>>, <<".">>} THEN Descend(Tail(comps), d)
    ELSE IF Head(comps) = <<".", ".">>
    THEN IF d = 0 THEN -1 ELSE Descend(Tail(comps), d - 1)
    ELSE Descend(Tail(comps), d + 1)

(* the name, taken from the repositories root, is a directory below it *)
UnderRoot(name) ==
    /\ name # <<>>
    /\ Head(name) # "/"
    /\ Descend(Split(name), 0) >= 1

(* C15: dir prints the contents of non-hidden directories located under the *)
(* repositories root only: whatever the arguments, an absolute path and a *)
(* relative path with '..' components included, every directory listed is *)
(* below the root and its name does not start with a dot. *)
C15_DirStaysUnderRoot ==
    \A i \in 1..Len(listed) :
        /\ UnderRoot(listed[i])
        /\ Head(listed[i]) # "."

(* ------------------------------------------------------------------ *)
(* The normalizer against a stack of components                        *)
(* ------------------------------------------------------------------ *)
(* the components kept: empty and '.' components are dropped, '..' removes *)
(* the component kept last when there is one and is dropped otherwise *)
RECURSIVE KeptComponents(_, _)
KeptComponents(comps, stack) ==
    IF comps = <<>> THEN stack
    ELSE IF Head(comps) \in {<<>>, <<".">>} THEN KeptComponents(Tail(comps), stack)
    ELSE IF Head(comps) = <<".", ".">>
    THEN KeptComponents(Tail(comps),
                        IF stack = <<>> THEN stack ELSE SubSeq(stack, 1, Len(stack) - 1))
    ELSE KeptComponents(Tail(comps), Append(stack, Head(comps)))

RECURSIVE JoinComponents(_)
JoinComponents(stack) ==
    IF stack = <<>> THEN <<>>
    ELSE IF Len(stack) = 1 THEN Head(stack)
    ELSE Head(stack) \o <<"/">> \o JoinComponents(Tail(stack))

(* C16: git_host_normalize_path agrees with the stack of components on *)
(* every input: it fails exactly when no component is kept, and otherwise *)
(* leaves the kept components joined by single separators. *)
C16_NormalizeAgreesWithStack ==
    npc = "done" =>
        LET kept == KeptComponents(Split(nraw), <<>>)
        IN  /\ nres.ret # 0 <=> kept = <<>>
            /\ nres.ret = 0 => nres.path = JoinComponents(kept)

C16_Witness ==
    /\ npc = "done"
    /\ nraw = <<"a", "a", "/", ".", ".", "/", "a">>
    /\ nres.ret = 0
    /\ nres.path = <<"a">>

(* ------------------------------------------------------------------ *)
(* The tokenizer against restricted shell word splitting               *)
(* ------------------------------------------------------------------ *)
(* word splitting of s: blanks outside quotes delimit the words, quotes are *)
(* removed, a single-quoted span is literal, in a double-quoted span a *)
(* backslash escapes '"' and '\' and is kept before any other character; *)
(* mode is "plain", "single" or "double", word the word under construction *)
(* when inword holds *)
RECURSIVE WordSplit(_, _, _, _, _)
WordSplit(s, md, word, inword, words) ==
    IF s = <<>>
    THEN [unclosed |-> md # "plain",
          words |-> IF inword THEN Append(words, word) ELSE words]
    ELSE LET c == Head(s)
             t == Tail(s)
         IN  CASE md = "plain" ->
                    IF isblank(c)
                    THEN WordSplit(t, md, <<>>, FALSE,
                                   IF inword THEN Append(words, word) ELSE words)
                    ELSE IF c = "'" THEN WordSplit(t, "single", word, TRUE, words)
                    ELSE IF c = "\"" THEN WordSplit(t, "double", word, TRUE, words)
                    ELSE WordSplit(t, md, Append(word, c), TRUE, words)
               [] md = "single" ->
                    IF c = "'" THEN WordSplit(t, "plain", word, TRUE, words)
                    ELSE WordSplit(t, md, Append(word, c), TRUE, words)
               [] md = "double" ->
                    IF c = "\"" THEN WordSplit(t, "plain", word, TRUE, words)
                    ELSE IF c = "\\"
                    THEN IF t = <<>> THEN [unclosed |-> TRUE, words |-> words]
                         ELSE WordSplit(Tail(t), md,
                                        IF Head(t) \in {"\"", "\\"}
                                        THEN Append(word, Head(t))
                                        ELSE word \o <<"\\", Head(t)>>,
                                        TRUE, words)
                    ELSE WordSplit(t, md, Append(word, c), TRUE, words)

(* C17: the tokenizer splits every input as restricted shell word *)
(* splitting does: the arguments are the maximal runs between unquoted *)
(* blanks with the quotes removed, quoted and unquoted material joined into *)
(* one argument; "Unclosed quote" is raised exactly when the input ends *)
(* inside a quoted span or right after a backslash inside double quotes; *)
(* git-upload-pack 'my repo' gives two arguments and a'b c'd gives ab cd. *)
C17_TokenizerSplitsLikeShell ==
    epc = "done" =>
        LET ref == WordSplit(eraw, "plain", <<>>, FALSE, <<>>)
        IN  /\ eres.diag = "Unclosed quote" <=> ref.unclosed
            /\ (~ref.unclosed /\ ref.words # <<>>) =>
                  (eres.status = -1 /\ eres.argv = ref.words)
            /\ eraw = <<"a", "'", "b", " ", "c", "'", "d">> =>
                  eres.argv = << <<"a", "b", " ", "c", "d">> >>

(* ------------------------------------------------------------------ *)
(* The two in-place rewriters run side by side                         *)
(* ------------------------------------------------------------------ *)
InitInPlace == InitNormalize \/ InitExpand

InPlaceNext == NNext \/ ENext

(* a loop that can take a step takes it *)
SpecInPlace == InitInPlace /\ [][InPlaceNext]_vars /\ WF_vars(InPlaceNext)

(* git_host_normalize_path: dst never passes src, src never passes the *)
(* terminator, and between two components a non-zero dst stands right after *)
(* a separator, so that dst -= 2 and dst-- cannot wrap *)
NormalizeInBounds ==
    /\ 0 <= norm.dst
    /\ norm.dst <= norm.src
    /\ norm.src <= Len(nraw)
    /\ (norm.state \in {"TRAILING_SLASH", "NAME_DOT", "NAME_DOT_DOT"} /\ norm.dst # 0) =>
          (norm.dst >= 2 /\ At(norm.path, norm.dst - 1) = "/")
    /\ npc = "done" =>
          (norm.src = Len(nraw) /\ 0 <= nres.dst /\ nres.dst <= Len(nraw))

(* git_host_expand_command: dst never passes src, and inside an argument *)
(* src is the byte it points at *)
ExpandInBounds ==
    /\ expand.dst <= expand.src
    /\ expand.it <= Len(eraw) + 1
    /\ expand.state \in {"LITERAL", "QUOTE_SINGLE", "QUOTE_DOUBLE", "QUOTE_DOUBLE_ESCAPE"} =>
          /\ 0 <= expand.arg
          /\ expand.arg <= expand.dst
          /\ expand.src = expand.it
          /\ expand.it <= Len(eraw)
    /\ epc = "done" => expand.it = Len(eraw) + 1

(* C20: the in-place rewriting is memory-safe. In the normalizer *)
(* 0 <= dst <= src <= length holds at every step and dst is at least 2, *)
(* right after a separator, whenever it is non-zero between components; in *)
(* the tokenizer the write pointer never passes the read pointer, which is *)
(* the scan pointer inside an argument; each loop reads one more byte at *)
(* every iteration and both halt, having read every byte once. *)
C20_InPlaceRewritingIsSafe ==
    /\ [](NormalizeInBounds /\ ExpandInBounds)
    /\ [][/\ (npc = "loop" /\ npc' = "loop") => (norm'.src = norm.src + 1)
          /\ (epc = "loop" /\ epc' = "loop") => (expand'.it = expand.it + 1)
          /\ (npc = "done" \/ epc = "done") => (vars' = vars)]_vars
    /\ <>(npc = "done" \/ epc = "done")

C20_Witness ==
    /\ nraw = <<"a", "a", "/", ".", ".", "/", "a">>
    /\ npc = "loop"
    /\ norm.src = 6
    /\ norm.dst = 0
    /\ norm.state = "TRAILING_SLASH"

(* ------------------------------------------------------------------ *)
(* Properties of the key-file scan                                     *)
(* ------------------------------------------------------------------ *)
LowerSeq(s) == [i \in 1..Len(s) |-> tolower(s[i])]

(* a value in which every quote is escaped by a backslash *)
ValueOk(v) ==
    /\ \A i \in 1..Len(v) : v[i] = "\"" => (i > 1 /\ v[i - 1] = "\\")
    /\ (v = <<>> \/ v[Len(v)] # "\\")

(* one option of the three shapes: name, optional no- and name, name="value" *)
RecognisedOption(e) ==
    \E i \in 1..optionscount :
        LET name == options[i].name
        IN  CASE options[i].type = "SIMPLE" -> LowerSeq(e) = name
              [] options[i].type = "ALLOW_NO" -> LowerSeq(e) \in {name, S_no \o name}
              [] options[i].type = "WITH_ARGS" ->
                    /\ Len(e) >= Len(name) + 3
                    /\ LowerSeq(SubSeq(e, 1, Len(name))) = name
                    /\ SubSeq(e, Len(name) + 1, Len(name) + 2) = <<"=", "\"">>
                    /\ e[Len(e)] = "\""
                    /\ ValueOk(SubSeq(e, Len(name) + 3, Len(e) - 1))

(* a comma-separated list of recognised options *)
RECURSIVE WellFormedClause(_)
WellFormedClause(c) ==
    \/ RecognisedOption(c)
    \/ \E k \in 1..Len(c) :
          /\ c[k] = ","
          /\ RecognisedOption(SubSeq(c, 1, k - 1))
          /\ WellFormedClause(SubSeq(c, k + 1, Len(c)))

RECURSIVE DropBlanks(_)
DropBlanks(s) ==
    IF s # <<>> /\ isblank(Head(s)) THEN DropBlanks(Tail(s)) ELSE s

(* blanks, the key type, blanks, the key, then a blank or the end of the field *)
TypeAndKey(r, keytype, key) ==
    LET a == DropBlanks(r)
        b == SubSeq(a, Len(keytype) + 1, Len(a))
        c == DropBlanks(b)
        d == SubSeq(c, Len(key) + 1, Len(c))
    IN  /\ StartsWith(a, keytype)
        /\ b # <<>> /\ isblank(Head(b))
        /\ StartsWith(c, key)
        /\ (d = <<>> \/ isblank(Head(d)) \/ Head(d) = "\n")

(* the options clause of the line, when it has a well-formed one *)
ClauseEnds(line) ==
    {k \in 1..(Len(line) - 1) :
        isblank(line[k + 1]) /\ WellFormedClause(SubSeq(line, 1, k))}

(* the line authorizes the pair: no options or a well-formed clause, then *)
(* the type and the key *)
Authorizes(line, keytype, key) ==
    /\ line # <<>>
    /\ Head(line) \notin {"#", "\n"}
    /\ \/ TypeAndKey(line, keytype, key)
       \/ \E k \in ClauseEnds(line) :
             TypeAndKey(SubSeq(line, k + 1, Len(line)), keytype, key)

AuthorizingLines ==
    IF sfile = NoFile THEN {}
    ELSE {i \in 1..Len(sfile) : Authorizes(sfile[i], sargs.keytype, sargs.key)}

(* C11: a scan is never aborted by the lines before an authorizing line. *)
(* When the file holds a line that authorizes the pair, whatever comment, *)
(* blank, malformed or non-matching lines come before it, the scan returns *)
(* a match and has read no line past the first authorizing one; it returns *)
(* no match only when the file could not be opened or was read to its end. *)
C11_ScanNeverAborts ==
    spc = "returned" =>
        /\ AuthorizingLines # {} =>
              /\ sret = 0
              /\ \A i \in AuthorizingLines : sread <= i
        /\ sret # 0 => (sfile = NoFile \/ sread = Len(sfile))

(* C18: the matcher is sound. A line reported as a match has no options or *)
(* a comma-separated clause in which every element is a recognised option *)
(* of one of the three shapes, then blanks, a token equal to the key type, *)
(* blanks and a token equal to the key; a line whose clause holds an *)
(* unknown token or a malformed name="value" option is never a match. *)
C18_MatchedLineIsWellFormed ==
    (spc = "returned" /\ sret = 0) =>
        Authorizes(sfile[sread], sargs.keytype, sargs.key)

(* C19: the option skipper is complete. On every line that starts with a *)
(* well-formed options clause followed by a blank, whatever blanks, commas *)
(* and escaped quotes its values hold, skip_options returns 0 and leaves *)
(* entry on that blank. *)
C19_SkipsWellFormedClause ==
    (sread >= 1 /\ sentry.called) =>
        \A k \in ClauseEnds(sfile[sread]) :
            sentry.ret = 0 /\ sentry.entry = k

C19_Witness ==
    /\ sfile = <<L_unterminated, L_longer, L_options>>
    /\ sread = 3
    /\ ClauseEnds(sfile[3]) = {Len(O_command) + 1 + Len(O_no_pty) + 1 + Len(O_environment)}
    /\ sentry = [called |-> TRUE, ret |-> 0,
                 entry |-> Len(O_command) + 1 + Len(O_no_pty) + 1 + Len(O_environment)]
    /\ sret = 0

====
